---- MODULE Spec2Model ----
(***************************************************************************)
(* CycleCursor<T> of src/src/lib.rs: a cyclic, bidirectional, peekable     *)
(* cursor over a Vec<T>.  The state is the struct's two public fields      *)
(* (inner, pos), the build's overflow-check setting, and a record of the   *)
(* last call with the value it returned and the position it found.        *)
(***************************************************************************)
EXTENDS Integers, Sequences, FiniteSets

VARIABLES inner, pos, overflow_checks, op, ret, run, before

vars == <<inner, pos, overflow_checks, op, ret, run, before>>

(* ------------------------------ bounds -------------------------------- *)

\* Width of usize/isize in bits, scaled down from the target's pointer width.
WordBits == 5
\* Longest backing vector explored.
MaxLen == 4
\* Longest run of identical moves from construction that `run` counts.
MaxRun == 5

(* --------------------------- machine words ----------------------------- *)

UsizeMod == 2 ^ WordBits
IsizeMin == -(2 ^ (WordBits - 1))
IsizeMax == 2 ^ (WordBits - 1) - 1
Isize == IsizeMin .. IsizeMax

\* `x as usize` for an isize x: two's complement reinterpretation.
AsUsize(x) == x % UsizeMod

(* ------------------------------ Option --------------------------------- *)

None == <<>>
Some(x) == <<x>>
IsNone(o) == o = None
Unwrap(o) == o[1]
UnwrapOr(o, d) == IF o = None THEN d ELSE o[1]

(* --------------------------- return values ----------------------------- *)

RetUnit == [kind |-> "unit", val |-> 0]
RetNone == [kind |-> "none", val |-> 0]
RetSome(v) == [kind |-> "some", val |-> v]
RetPanic == [kind |-> "panic", val |-> 0]

\* Vec::get(i) on the backing vector (0-based index).
VecGet(v, i) == IF i < Len(v) THEN RetSome(v[i + 1]) ELSE RetNone

\* A usize sum: under overflow checks a sum past the word panics,
\* otherwise it wraps.
Overflows(sum) == sum >= UsizeMod
Wrap(sum) == sum % UsizeMod

(* ---------------------- index computations ----------------------------- *)

\* Mutant of CycleNextSum: the unset base of cycle_prev used in cycle_next.
CycleNextSumFromLen(v, p) == UnwrapOr(p, Len(v)) + Len(v) + 1

\* Mutant of CycleNextSum: no wrap, the cursor stays on the last index.
CycleNextSumStay(v, p) ==
    IF p = Some(Len(v) - 1) THEN Len(v) + Len(v) - 1
    ELSE UnwrapOr(p, Len(v) - 1) + Len(v) + 1

\* cycle_next: self.pos.unwrap_or(max_items - 1) + max_items + 1
CycleNextSum(v, p) == UnwrapOr(p, Len(v) - 1) + Len(v) + 1

\* Mutant of CyclePrevSum: the unset base of cycle_next used in cycle_prev.
CyclePrevSumFromLast(v, p) == UnwrapOr(p, Len(v) - 1) + Len(v) - 1

\* Mutant of CyclePrevSum: no wrap, the cursor stays on index 0.
CyclePrevSumStay(v, p) ==
    IF p = Some(0) THEN Len(v)
    ELSE UnwrapOr(p, Len(v)) + Len(v) - 1

\* cycle_prev: self.pos.unwrap_or(max_items) + max_items - 1
CyclePrevSum(v, p) == UnwrapOr(p, Len(v)) + Len(v) - 1

\* Mutant of PeekNorm: a negative distance normalised to its magnitude.
PeekNormAbs(max_items, peek_distance) ==
    AsUsize(IF peek_distance < 0 THEN -peek_distance ELSE peek_distance)

\* peek: if peek_distance < 0 { (max_items as isize) + peek_distance }
\*       else { peek_distance } as usize
PeekNorm(max_items, peek_distance) ==
    AsUsize(IF peek_distance < 0 THEN max_items + peek_distance
                                 ELSE peek_distance)

\* Mutant of PeekSum: an unset position read as index 0.
PeekSumFromZero(v, p, peek_distance) ==
    UnwrapOr(p, 0) + Len(v) + PeekNorm(Len(v), peek_distance)

\* Mutant of PeekSum: the distance counted from the element after the cursor.
PeekSumFromNext(v, p, peek_distance) ==
    UnwrapOr(p, Len(v) - 1) + Len(v) + PeekNorm(Len(v), peek_distance) + 1

\* peek: self.pos.unwrap_or(max_items - 1) + max_items + norm_peek_distance
PeekSum(v, p, peek_distance) ==
    UnwrapOr(p, Len(v) - 1) + Len(v) + PeekNorm(Len(v), peek_distance)

\* Mutant of SeekNorm: a distance past the length clamped to the last index.
SeekNormClamped(max_items, seek_distance) ==
    AsUsize(IF seek_distance < 0 THEN max_items + seek_distance
            ELSE IF seek_distance >= max_items THEN max_items - 1
            ELSE seek_distance)

\* Mutant of SeekNorm: a negative distance normalised to its magnitude.
SeekNormAbs(max_items, seek_distance) ==
    AsUsize(IF seek_distance < 0 THEN -seek_distance ELSE seek_distance)

\* seek: the same normalisation, written out a second time in the source.
SeekNorm(max_items, seek_distance) ==
    AsUsize(IF seek_distance < 0 THEN max_items + seek_distance
                                 ELSE seek_distance)

\* Mutant of SeekSum: the unset base of cycle_prev used in seek.
SeekSumFromLen(v, p, seek_distance) ==
    UnwrapOr(p, Len(v)) + Len(v) + SeekNorm(Len(v), seek_distance)

\* seek: self.pos.unwrap_or(max_items - 1) + max_items + norm_seek_distance
SeekSum(v, p, seek_distance) ==
    UnwrapOr(p, Len(v) - 1) + Len(v) + SeekNorm(Len(v), seek_distance)

\* Mutant of PeekRet: the empty check dropped, so the remainder by a zero
\* length panics.
PeekRetNoEmptyCheck(v, p, peek_distance, b) ==
    IF Len(v) = 0 THEN RetPanic
    ELSE IF b /\ Overflows(PeekSum(v, p, peek_distance)) THEN RetPanic
    ELSE VecGet(v, Wrap(PeekSum(v, p, peek_distance)) % Len(v))

\* What peek(peek_distance) returns on vector v with position p under the
\* build b (TRUE: overflow checks on).
PeekRet(v, p, peek_distance, b) ==
    IF Len(v) = 0 THEN RetNone
    ELSE IF b /\ Overflows(PeekSum(v, p, peek_distance)) THEN RetPanic
    ELSE VecGet(v, Wrap(PeekSum(v, p, peek_distance)) % Len(v))

\* Mutant of GetRet: the staleness check off by one (> for >=).
GetRetOffByOne(v, p) ==
    IF IsNone(p) THEN RetNone
    ELSE IF Unwrap(p) > Len(v) THEN RetPanic
    ELSE VecGet(v, Unwrap(p))

\* What get() returns on vector v with position p.
GetRet(v, p) ==
    IF IsNone(p) THEN RetNone
    ELSE IF Unwrap(p) >= Len(v) THEN RetPanic
    ELSE VecGet(v, Unwrap(p))

(* ------------------------------ history -------------------------------- *)

Call(name, arg) == [name |-> name, arg |-> arg]

\* `run` summarises the moves since construction: n consecutive calls of one
\* move and nothing else that writes (peek and get do not count), or "mixed".
RunAfter(r, name) ==
    IF r.name = "new" THEN [name |-> name, n |-> 1]
    ELSE IF r.name = name /\ r.n < MaxRun THEN [name |-> name, n |-> r.n + 1]
    ELSE [name |-> "mixed", n |-> 0]

RunMixed == [name |-> "mixed", n |-> 0]

(* ------------------------------- state --------------------------------- *)

\* Sources a cursor is constructed from: vec![], vec![1], ..., vec![1, .., MaxLen].
Source(n) == [i \in 1 .. n |-> i]

\* Mutant of Init: a cursor constructed on its first element.
InitAtFirst ==
    /\ inner \in {Source(n) : n \in 0 .. MaxLen}
    /\ pos = IF Len(inner) > 0 THEN Some(0) ELSE None
    /\ overflow_checks \in BOOLEAN
    /\ op = Call("new", 0)
    /\ ret = RetUnit
    /\ run = [name |-> "new", n |-> 0]
    /\ before = None

\* CycleCursor::from(source): the collected elements, pos: None.
Init ==
    /\ inner \in {Source(n) : n \in 0 .. MaxLen}
    /\ pos = None
    /\ overflow_checks \in BOOLEAN
    /\ op = Call("new", 0)
    /\ ret = RetUnit
    /\ run = [name |-> "new", n |-> 0]
    /\ before = None

(* ----------------------------- operations ------------------------------ *)

\* Mutant of CycleNext: the empty check dropped, an empty sequence entered
\* at index 0.
CycleNextEnters ==
    /\ op' = Call("cycle_next", 0)
    /\ before' = pos
    /\ IF Len(inner) = 0
         THEN pos' = Some(0) /\ ret' = RetUnit
         ELSE IF overflow_checks /\ Overflows(CycleNextSum(inner, pos))
           THEN pos' = pos /\ ret' = RetPanic
           ELSE /\ pos' = Some(Wrap(CycleNextSum(inner, pos)) % Len(inner))
                /\ ret' = RetUnit
    /\ run' = RunAfter(run, "cycle_next")
    /\ UNCHANGED <<inner, overflow_checks>>

CycleNext ==
    /\ op' = Call("cycle_next", 0)
    /\ before' = pos
    /\ IF Len(inner) = 0
         THEN pos' = pos /\ ret' = RetUnit
         ELSE IF overflow_checks /\ Overflows(CycleNextSum(inner, pos))
           THEN pos' = pos /\ ret' = RetPanic
           ELSE /\ pos' = Some(Wrap(CycleNextSum(inner, pos)) % Len(inner))
                /\ ret' = RetUnit
    /\ run' = RunAfter(run, "cycle_next")
    /\ UNCHANGED <<inner, overflow_checks>>

CyclePrev ==
    /\ op' = Call("cycle_prev", 0)
    /\ before' = pos
    /\ IF Len(inner) = 0
         THEN pos' = pos /\ ret' = RetUnit
         ELSE IF overflow_checks /\ Overflows(CyclePrevSum(inner, pos))
           THEN pos' = pos /\ ret' = RetPanic
           ELSE /\ pos' = Some(Wrap(CyclePrevSum(inner, pos)) % Len(inner))
                /\ ret' = RetUnit
    /\ run' = RunAfter(run, "cycle_prev")
    /\ UNCHANGED <<inner, overflow_checks>>

\* Mutant of Peek: the computed index is also stored, as seek does.
PeekMoves(peek_distance) ==
    /\ op' = Call("peek", peek_distance)
    /\ before' = pos
    /\ ret' = PeekRet(inner, pos, peek_distance, overflow_checks)
    /\ pos' = IF ret'.kind = "some"
               THEN Some(Wrap(PeekSum(inner, pos, peek_distance)) % Len(inner))
               ELSE pos
    /\ UNCHANGED <<inner, overflow_checks, run>>

Peek(peek_distance) ==
    /\ op' = Call("peek", peek_distance)
    /\ before' = pos
    /\ ret' = PeekRet(inner, pos, peek_distance, overflow_checks)
    /\ UNCHANGED <<inner, pos, overflow_checks, run>>

\* Mutant of Seek: the final `% max_items` left out.
SeekNoMod(seek_distance) ==
    /\ op' = Call("seek", seek_distance)
    /\ before' = pos
    /\ IF Len(inner) = 0
         THEN pos' = pos /\ ret' = RetUnit
         ELSE IF overflow_checks /\ Overflows(SeekSum(inner, pos, seek_distance))
           THEN pos' = pos /\ ret' = RetPanic
           ELSE /\ pos' = Some(Wrap(SeekSum(inner, pos, seek_distance)))
                /\ ret' = RetUnit
    /\ run' = RunAfter(run, "seek")
    /\ UNCHANGED <<inner, overflow_checks>>

Seek(seek_distance) ==
    /\ op' = Call("seek", seek_distance)
    /\ before' = pos
    /\ IF Len(inner) = 0
         THEN pos' = pos /\ ret' = RetUnit
         ELSE IF overflow_checks /\ Overflows(SeekSum(inner, pos, seek_distance))
           THEN pos' = pos /\ ret' = RetPanic
           ELSE /\ pos' = Some(Wrap(SeekSum(inner, pos, seek_distance)) % Len(inner))
                /\ ret' = RetUnit
    /\ run' = RunAfter(run, "seek")
    /\ UNCHANGED <<inner, overflow_checks>>

Get ==
    /\ op' = Call("get", 0)
    /\ before' = pos
    /\ ret' = GetRet(inner, pos)
    /\ UNCHANGED <<inner, pos, overflow_checks, run>>

(* --- external mutation of the backing vector through DerefMut / inner --- *)

\* The element external code adds: one that no source holds.
NewElem == MaxLen + 1

InsertAt(v, i, x) ==
    [j \in 1 .. Len(v) + 1 |-> IF j <= i THEN v[j] ELSE IF j = i + 1 THEN x ELSE v[j - 1]]

RemoveAt(v, i) == [j \in 1 .. Len(v) - 1 |-> IF j <= i THEN v[j] ELSE v[j + 1]]

\* cursor.insert(i, x), i <= len (explored for i = 0: every element shifts)
Insert(i) ==
    /\ Len(inner) < MaxLen
    /\ i <= Len(inner)
    /\ inner' = InsertAt(inner, i, NewElem)
    /\ op' = Call("insert", i)
    /\ before' = pos
    /\ ret' = RetUnit
    /\ run' = RunMixed
    /\ UNCHANGED <<pos, overflow_checks>>

\* cursor.remove(i), i a valid index
Remove(i) ==
    /\ i < Len(inner)
    /\ inner' = RemoveAt(inner, i)
    /\ op' = Call("remove", i)
    /\ before' = pos
    /\ ret' = RetSome(inner[i + 1])
    /\ run' = RunMixed
    /\ UNCHANGED <<pos, overflow_checks>>

\* cursor.truncate(n)
Truncate(n) ==
    /\ inner' = IF n < Len(inner) THEN SubSeq(inner, 1, n) ELSE inner
    /\ op' = Call("truncate", n)
    /\ before' = pos
    /\ ret' = RetUnit
    /\ run' = RunMixed
    /\ UNCHANGED <<pos, overflow_checks>>

\* Mutant of Clear: the position reset along with the vector.
ClearResets ==
    /\ inner' = <<>>
    /\ pos' = None
    /\ op' = Call("clear", 0)
    /\ before' = pos
    /\ ret' = RetUnit
    /\ run' = RunMixed
    /\ UNCHANGED overflow_checks

\* cursor.clear()
Clear ==
    /\ inner' = <<>>
    /\ op' = Call("clear", 0)
    /\ before' = pos
    /\ ret' = RetUnit
    /\ run' = RunMixed
    /\ UNCHANGED <<pos, overflow_checks>>

(* --------------------------- specifications ---------------------------- *)

\* The cursor's own operations only: nothing touches the backing vector.
NextCursor ==
    \/ CycleNext
    \/ CyclePrev
    \/ \E k \in Isize : Peek(k)
    \/ \E k \in Isize : Seek(k)
    \/ Get

SpecCursor == Init /\ [][NextCursor]_vars

\* Single steps only: cycle_next and cycle_prev, observed by peek and get.
NextSteps ==
    \/ CycleNext
    \/ CyclePrev
    \/ \E k \in Isize : Peek(k)
    \/ Get

SpecSteps == Init /\ [][NextSteps]_vars

\* The cursor's operations interleaved with external mutation.
Next ==
    \/ CycleNext
    \/ CyclePrev
    \/ \E k \in Isize : Peek(k)
    \/ \E k \in Isize : Seek(k)
    \/ Get
    \/ Insert(0)
    \/ \E i \in 0 .. MaxLen - 1 : Remove(i)
    \/ \E n \in 0 .. MaxLen : Truncate(n)
    \/ Clear

Spec == Init /\ [][Next]_vars

(* ------------------------------ claims --------------------------------- *)

Mutations == {"insert", "remove", "truncate", "clear"}
Moves == {"cycle_next", "cycle_prev", "seek"}

\* The position is unset or a valid index.
NonStale(v, p) == IsNone(p) \/ Unwrap(p) < Len(v)

\* Element of v at 0-based index i.
At(v, i) == v[i + 1]

\* C1: with no external mutation, after any sequence of cycle_next,
\* cycle_prev, seek(k), peek(k) and get, the position is unset or an index
\* strictly less than the length of the sequence.
C1_PositionValid == IsNone(pos) \/ Unwrap(pos) < Len(inner)

\* C1 witness: a seek by more than one whole wrap backwards has set the position.
C1_Witness ==
    /\ op.name = "seek" /\ op.arg < -Len(inner) /\ Len(inner) > 1
    /\ ret = RetUnit /\ ~IsNone(pos)

\* C2: get() panics when the position is set and the sequence is no longer
\* than it, returns exactly the element at the position when that is a valid
\* index, and returns not-found when the position is unset.
C2_GetOutcome ==
    [][op'.name = "get" =>
        ret' = IF IsNone(pos) THEN RetNone
               ELSE IF Len(inner) <= Unwrap(pos) THEN RetPanic
               ELSE RetSome(At(inner, Unwrap(pos)))]_vars

\* C2 witness: [1,2,3,4], cursor at index 3, two elements removed, get() panicked.
C2_Witness ==
    /\ op.name = "get" /\ inner = <<3, 4>> /\ pos = Some(3) /\ ret = RetPanic

\* C3 (as claimed): after an external mutation, one call of cycle_next,
\* cycle_prev or seek(k) leaves a position on which get() does not panic.
C3_RecoveryAfterMutation ==
    [][(op.name \in Mutations /\ op'.name \in Moves) =>
        GetRet(inner', pos') # RetPanic]_vars

\* C4 (as claimed): get() and peek(k) return not-found whenever the sequence
\* is empty, and get() returns not-found whenever the position is unset.
C4_EmptyNeverFails ==
    [][/\ (op'.name \in {"get", "peek"} /\ Len(inner) = 0) => ret' = RetNone
       /\ (op'.name = "get" /\ IsNone(pos)) => ret' = RetNone]_vars

\* C4 (amended): peek(k) returns not-found whenever the sequence is empty and
\* get() returns not-found whenever the position is unset; get() on a
\* sequence emptied after the position was set panics.
C4_EmptyOutcomes ==
    [][/\ (op'.name = "peek" /\ Len(inner) = 0) => ret' = RetNone
       /\ (op'.name = "get" /\ IsNone(pos)) => ret' = RetNone
       /\ (op'.name = "get" /\ Len(inner) = 0 /\ ~IsNone(pos)) => ret' = RetPanic]_vars

\* C4 witness: peek on a sequence emptied after the position was set.
C4_Witness ==
    /\ op.name = "peek" /\ Len(inner) = 0 /\ ~IsNone(pos) /\ ret = RetNone

\* C5 (as claimed): for every offset k and every non-stale state, what
\* peek(k) returned immediately before seek(k) is what get() returns
\* immediately after it.
C5_SeekMatchesPeek ==
    [][(op.name = "peek" /\ op' = Call("seek", op.arg) /\ NonStale(inner, pos)) =>
        GetRet(inner', pos') = ret]_vars

\* C6: on a non-empty sequence cycle_next() sets the position to 0 when it
\* was unset and to (position + 1) mod N otherwise, returns nothing and
\* leaves the sequence alone.
C6_CycleNextStep ==
    [][(op'.name = "cycle_next" /\ Len(inner) > 0) =>
        /\ pos' = Some(IF IsNone(pos) THEN 0 ELSE (Unwrap(pos) + 1) % Len(inner))
        /\ inner' = inner
        /\ ret' = RetUnit]_vars

\* C6 witness: N + 1 cycle_next calls from construction: the step from the
\* last index N - 1 has wrapped to index 0.
C6_Witness ==
    /\ op.name = "cycle_next" /\ run = [name |-> "cycle_next", n |-> Len(inner) + 1]
    /\ Len(inner) > 1 /\ pos = Some(0)

\* C7: on a non-empty sequence cycle_prev() sets the position to N - 1 when
\* it was unset and to (position - 1 + N) mod N otherwise.
C7_CyclePrevStep ==
    [][(op'.name = "cycle_prev" /\ Len(inner) > 0) =>
        pos' = Some(IF IsNone(pos) THEN Len(inner) - 1
                    ELSE (Unwrap(pos) - 1 + Len(inner)) % Len(inner))]_vars

\* C7 witness: N + 1 cycle_prev calls from construction: the step back from
\* index 0 has wrapped to index N - 1.
C7_Witness ==
    /\ op.name = "cycle_prev" /\ run = [name |-> "cycle_prev", n |-> Len(inner) + 1]
    /\ Len(inner) > 1 /\ pos = Some(Len(inner) - 1)

\* C8: on a non-empty sequence with a non-stale position, for k >= -N,
\* peek(k) returns the element at (base + k) mod N, base being the position,
\* or N - 1 when it is unset.
C8_PeekResult ==
    [][(op'.name = "peek" /\ Len(inner) > 0 /\ NonStale(inner, pos)
            /\ op'.arg >= -Len(inner)) =>
        ret' = RetSome(At(inner, (UnwrapOr(pos, Len(inner) - 1) + op'.arg) % Len(inner)))]_vars

\* C8 witness: a peek of -N from an unset position, and it returned the last element.
C8_Witness ==
    /\ op.name = "peek" /\ Len(inner) > 2 /\ op.arg = -Len(inner)
    /\ IsNone(pos) /\ ret = RetSome(At(inner, Len(inner) - 1))

TwoNexts == inner = <<1, 2, 3, 4>> /\ run = [name |-> "cycle_next", n |-> 2]

\* C9 (as claimed): on [1,2,3,4] after exactly two cycle_next() calls the
\* cursor is at index 1, peek(3) returns 4, peek(-3) returns 1 and get()
\* returns 2.
C9_SpecScenario ==
    TwoNexts =>
        /\ pos = Some(1)
        /\ op = Call("peek", 3) => ret = RetSome(4)
        /\ op = Call("peek", -3) => ret = RetSome(1)
        /\ op.name = "get" => ret = RetSome(2)

\* C9 (amended): on [1,2,3,4] after exactly two cycle_next() calls the
\* cursor is at index 1, peek(3) returns 1, peek(-3) returns 3 and get()
\* returns 2.
C9_Scenario ==
    TwoNexts =>
        /\ pos = Some(1)
        /\ op = Call("peek", 3) => ret = RetSome(1)
        /\ op = Call("peek", -3) => ret = RetSome(3)
        /\ op.name = "get" => ret = RetSome(2)

\* C9 witness: the scenario's peek(-3) has returned.
C9_Witness == TwoNexts /\ op = Call("peek", -3) /\ ret = RetSome(3)

\* C10: peek(k) leaves the position and the sequence as they were, and get()
\* after a peek returns what get() returned before it.
C10_PeekReadOnly ==
    [][op'.name = "peek" =>
        /\ pos' = pos
        /\ inner' = inner
        /\ op.name = "get" => GetRet(inner', pos') = ret]_vars

\* C10 witness: a peek that returned an element other than the current one.
C10_Witness ==
    /\ op.name = "peek" /\ ret.kind = "some" /\ ~IsNone(pos)
    /\ NonStale(inner, pos) /\ ret # GetRet(inner, pos)

\* C11: on an empty sequence cycle_next(), cycle_prev() and seek(k) leave
\* the position exactly as it was and the sequence empty; a cursor
\* constructed from an empty source stays unset.
C11_EmptyNoOp ==
    [][(op'.name \in Moves /\ Len(inner) = 0) =>
        /\ pos' = pos
        /\ inner' = inner
        /\ ret' = RetUnit
        /\ run.name # "mixed" => IsNone(pos')]_vars

\* C11 witness: three seeks on a cursor constructed from an empty source.
C11_Witness ==
    /\ op.name = "seek" /\ run = [name |-> "seek", n |-> 3]
    /\ Len(inner) = 0 /\ IsNone(pos) /\ ret = RetUnit

\* C12 (as claimed): cycle_next, cycle_prev, peek(k) and seek(k) never panic,
\* for any offset k; get() panics only on a set position >= length.
C12_OnlyGetFails ==
    [][/\ op'.name \in (Moves \cup {"peek"}) => ret' # RetPanic
       /\ (op'.name = "get" /\ ret' = RetPanic) =>
            (~IsNone(pos) /\ Unwrap(pos) >= Len(inner))]_vars

Steps == {"cycle_next", "cycle_prev"}

\* The element the first call of a step enters the sequence at.
Entry(v, step) == IF step = "cycle_next" THEN At(v, 0) ELSE At(v, Len(v) - 1)

\* C13 (as claimed): on a non-empty sequence of length N, get() after N
\* consecutive cycle_next() calls from construction returns what get()
\* returns after 0 calls (not-found, the position being unset); the same for
\* cycle_prev().
C13_FullCycle ==
    (op.name = "get" /\ run.name \in Steps /\ Len(inner) > 0 /\ run.n = Len(inner)) =>
        ret = RetNone

\* C13 (amended): get() after N + 1 consecutive cycle_next() calls from
\* construction returns what get() returns after 1 call, the first element;
\* the same for cycle_prev() and the last element.
C13_FullCycleFromSet ==
    (op.name = "get" /\ run.name \in Steps /\ Len(inner) > 0
        /\ run.n \in {1, Len(inner) + 1}) =>
        ret = RetSome(Entry(inner, run.name))

\* C13 witness: get() after N + 1 cycle_next() calls returned the first element.
C13_Witness ==
    /\ op.name = "get" /\ Len(inner) > 1
    /\ run = [name |-> "cycle_next", n |-> Len(inner) + 1]
    /\ ret = RetSome(At(inner, 0))

PeekZeroThenGet == op = Call("peek", 0) /\ op'.name = "get"
GetThenPeekZero == op.name = "get" /\ op' = Call("peek", 0)

\* C14 (as claimed): in every state reached from construction by cycle_next()
\* and cycle_prev() calls, peek(0) and get() return the same result.
C14_PeekZeroIsGet ==
    [][(PeekZeroThenGet \/ GetThenPeekZero) => ret' = ret]_vars

\* C14 (amended): the same, in every state reached by at least one such call
\* and on an empty sequence.
C14_PeekZeroIsGetOnceMoved ==
    [][((PeekZeroThenGet \/ GetThenPeekZero)
            /\ (run.name # "new" \/ Len(inner) = 0)) => ret' = ret]_vars

\* C14 witness: after a mix of cycle_next() and cycle_prev() calls, get()
\* returned the element that peek(0) returns there.
C14_Witness ==
    /\ op.name = "get" /\ before = pos /\ run.name = "mixed"
    /\ ret.kind = "some" /\ ret = PeekRet(inner, pos, 0, overflow_checks)

C16_WrapLaw ==
    [][/\ (op.name = "peek" /\ op'.name = "peek" /\ NonStale(inner, pos)
            /\ op.arg \in 0 .. Len(inner) - 1 /\ op'.arg = op.arg + Len(inner)) =>
            (ret'.kind = "some" /\ ret' = ret)
       /\ (op'.name = "seek" /\ NonStale(inner, pos)
            /\ op'.arg \in 0 .. 2 * Len(inner) - 1) =>
            pos' = Some((UnwrapOr(pos, Len(inner) - 1) + (op'.arg % Len(inner)))
                            % Len(inner))]_vars

\* C16 witness: a seek of k + N from a valid position has landed where
\* seek(k) lands.
C16_Witness ==
    /\ op.name = "seek" /\ Len(inner) > 1 /\ NonStale(inner, before) /\ ~IsNone(before)
    /\ op.arg \in Len(inner) + 1 .. 2 * Len(inner) - 1
    /\ pos = Some((Unwrap(before) + op.arg - Len(inner)) % Len(inner))

\* The position the last call found was a valid index.
BeforeValid == ~IsNone(before) /\ Unwrap(before) < Len(inner)

\* C17: on a non-empty sequence of length N with the position on a valid
\* index p, for 0 <= k <= N, seek(k) followed by seek(-k) leaves the position
\* at p, and get() returns the element at p again.
C17_SeekRoundTrip ==
    [][(op.name = "seek" /\ op'.name = "seek" /\ BeforeValid
            /\ op.arg \in 0 .. Len(inner) /\ op'.arg = -op.arg) =>
        /\ pos' = before
        /\ GetRet(inner', pos') = RetSome(At(inner, Unwrap(before)))]_vars

\* C17 witness: the third seek since construction, by -k with 0 < k <= N,
\* from a valid position, has moved the cursor k places back around the cycle.
C17_Witness ==
    /\ op.name = "seek" /\ run = [name |-> "seek", n |-> 3] /\ BeforeValid
    /\ Len(inner) > 2 /\ op.arg \in -Len(inner) .. -1
    /\ pos = Some((Unwrap(before) + op.arg) % Len(inner))

\* Where cycle_next() and cycle_prev() leave the position from (v, p).
AfterCycleNext(v, p) == Some(Wrap(CycleNextSum(v, p)) % Len(v))
AfterCyclePrev(v, p) == Some(Wrap(CyclePrevSum(v, p)) % Len(v))

\* C18 (as claimed): on a non-empty sequence, in every non-stale state, the
\* unset one included, seek(1) leaves the position cycle_next() leaves and
\* seek(-1) the position cycle_prev() leaves.
C18_UnitSeeks ==
    [][(Len(inner) > 0 /\ NonStale(inner, pos)) =>
        /\ op' = Call("seek", 1) => pos' = AfterCycleNext(inner, pos)
        /\ op' = Call("seek", -1) => pos' = AfterCyclePrev(inner, pos)]_vars

\* C18 (amended): seek(1) leaves the position cycle_next() leaves in every
\* non-stale state; seek(-1) leaves the position cycle_prev() leaves when the
\* position is set, and index (N - 2) mod N when it is unset.
C18_UnitSeeksFromSet ==
    [][(Len(inner) > 0 /\ NonStale(inner, pos)) =>
        /\ op' = Call("seek", 1) => pos' = AfterCycleNext(inner, pos)
        /\ (op' = Call("seek", -1) /\ ~IsNone(pos)) => pos' = AfterCyclePrev(inner, pos)
        /\ (op' = Call("seek", -1) /\ IsNone(pos)) =>
              pos' = Some((Len(inner) - 2) % Len(inner))]_vars

\* C18 witness: seek(-1) from index 0 has wrapped to the last index, as
\* cycle_prev() does.
C18_Witness ==
    /\ op = Call("seek", -1) /\ before = Some(0) /\ Len(inner) > 1
    /\ pos = Some(Len(inner) - 1) /\ pos = AfterCyclePrev(inner, before)

\* C19: on a non-empty sequence with the position on a valid index p,
\* cycle_next() then cycle_prev() leaves the position at p, and so does
\* cycle_prev() then cycle_next().
C19_StepsInverse ==
    [][(BeforeValid /\ ((op.name = "cycle_next" /\ op'.name = "cycle_prev")
                        \/ (op.name = "cycle_prev" /\ op'.name = "cycle_next"))) =>
        pos' = before]_vars

\* C19 witness: from the last index, cycle_next() wrapped to index 0 and
\* cycle_prev() has wrapped back.
C19_Witness ==
    /\ op.name = "cycle_prev" /\ run.name = "mixed" /\ Len(inner) > 2
    /\ before = Some(0) /\ pos = Some(Len(inner) - 1)

\* C20: once set, the position is set in every later state, whatever the
\* cursor's operations and the external mutations of the sequence do.
C20_StaysSet == [][~IsNone(pos) => ~IsNone(pos')]_vars

\* C20 witness: the sequence was emptied by clear() and the position is
\* still set.
C20_Witness == op.name = "clear" /\ Len(inner) = 0 /\ ~IsNone(pos)

====
